---------------------------- MODULE Spec2Model ----------------------------
(***************************************************************************)
(* A state-machine model of blockchain_rpc: the two programs of            *)
(* core.py (ListenAndSend, Arbitrage), the Web3Node they share             *)
(* (web3node.py) and the contract calls they make (coin.py, swap.py).      *)
(*                                                                         *)
(* Threads of control ("tasks"): task 0 is the main thread (it constructs  *)
(* the Web3Nodes, then runs ListenAndSend.execute or Arbitrage.execute);   *)
(* tasks 1 and 2 are the two worker threads that run Arbitrage._swap.      *)
(* Web3Node n is the node of endpoint n: node 0 is TESTNET_ENDPOINT, nodes *)
(* 1 and 2 are ENDPOINT_1 and ENDPOINT_2.  Swapper n and coin n are the    *)
(* contracts built on node n.                                              *)
(*                                                                         *)
(* The chain client (web3 / requests) is the environment: every RPC        *)
(* answers with a value or raises, chosen with \E.  Python exceptions are  *)
(* strings naming their class; "none" is no exception.                     *)
(*                                                                         *)
(* Spec is the running program.  SpecUnit applies two functions on their   *)
(* own, to every argument of a bounded set: build_transaction_data and     *)
(* Curve.swap's index resolution; the program stands still meanwhile.      *)
(***************************************************************************)
EXTENDS Integers, Sequences, FiniteSets, TLC

\* ------------------------------------------------------------------ bounds
MaxRetries == 2
MaxNumBlocks == 3
MaxHeight == 4
MaxValue == 2
MaxSlots == 3
MaxCoin == 3

\* --------------------------------------------------------------- variables
VARIABLES
    command,        \* __main__: "listenAndSend" or "arbitrage"
    retries,        \* --retries
    num_blocks,     \* the blocks argument of listenAndSend
    key_valid,      \* whether PRIVATE_KEY is a key Account.from_key accepts
    pc,             \* pc[t]: the position of task t
    retried,        \* retried[t]: the local `retried` of task t's retry loop
    result,         \* result[t]: the status of the local `result`, or "none"
    error,          \* error[t]: the exception that ended task t, or "none"
    call,           \* call[t]: the Web3Node call task t is inside
    conn,           \* Web3Node._initialize_web3 of the node being constructed
    nodes,          \* the Web3Nodes constructed so far
    height,         \* the chain's latest block number (TESTNET_ENDPOINT)
    current_number, \* ListenAndSend.execute: current_number
    block_count,    \* ListenAndSend.execute: block_count
    calls,          \* history: calls[t][op], invocations of op in t's current loop
    approve_final,  \* history: how leg t's approval loop ended
    changes,        \* history: height changes ListenAndSend has observed
    triggers,       \* history: times ListenAndSend started a transfer
    trigger_mark,   \* history: the height ListenAndSend had observed when it
                    \* started, or when it last started a transfer
    endpoint_users, \* history: endpoint_users[n], the tasks that used endpoint n
    last_wait,      \* history: last_wait[t], what the receipt wait of task t's
                    \* latest attempt in its current loop did
    ended,          \* history: ended[t], how task t's latest call ended and
                    \* the send_raw_transaction calls it had made
    tx,             \* tx[t]: the transaction task t built last (its nonce),
                    \* with the call and the attempt it was built in
    txcount,        \* txcount[n]: the account's transaction count on the
                    \* chain of endpoint n
    pending,        \* the transfers of ListenAndSend that were broadcast and
                    \* whose receipt it has not seen: [nonce, trigger]
    effects,        \* history: the transfers of the latest trigger that were
                    \* included in a block with status 1
    unit            \* the function applied on its own (SpecUnit): its
                    \* arguments, its position and what it returned

vars == <<command, retries, num_blocks, key_valid, pc, retried, result, error,
          call, conn, nodes, height, current_number, block_count, calls,
          approve_final, changes, triggers, endpoint_users, last_wait,
          ended, trigger_mark, tx, txcount, pending, effects, unit>>

Tasks == 0 .. 2
Legs == {1, 2}
Nodes == 0 .. 2
Ops == {"send_ETH", "approve", "swap"}


\* ------------------------------------------------------- Python exceptions
\* The classes an exception of class e is an instance of (requests.exceptions:
\* HTTPError and ConnectionError derive from RequestException).
Bases(e) ==
    CASE e = "HTTPError" -> {"HTTPError", "RequestException"}
      [] e = "ConnectionError" -> {"ConnectionError", "RequestException"}
      [] OTHER -> {e}

\* What an RPC through requests can raise.
RpcErrors == {"HTTPError", "ConnectionError"}

\* The names that are exception classes.  "requests.exceptions" is the module
\* requests.exceptions, which is not one.
ExceptionClasses ==
    {"TimeExhausted", "ValueError", "TypeError", "HTTPError", "ConnectionError",
     "RequestException", "KeyboardInterrupt", "TransactionException",
     "SwapException", "ZeroDivisionError", "Web3ConnectionException",
     "InvalidPrivateKeyException"}

\* `except (c1, c2, ...)` meeting a raised exception e.  CPython first checks
\* that every entry of the tuple is a class deriving from BaseException and
\* raises TypeError ("catching classes that do not inherit from BaseException
\* is not allowed") if one is not, whatever e is; only then does it match e.
ExceptClause(e, classes) ==
    IF \E c \in classes : c \notin ExceptionClasses THEN "TypeError"
    ELSE IF Bases(e) \cap classes # {} THEN "caught"
    ELSE "propagate"

\* The outcome of a Python call: it returns value, or raises exc.
Ret(v) == [exc |-> "none", value |-> v]
Raise(e) == [exc |-> e, value |-> "none"]

\* ------------------------------------------------------------- models.py
\* TransactionStatus(v): the member of the Enum whose value is v.
TransactionStatus(v) ==
    CASE v = 1 -> Ret("SUCCESS")
      [] v = 0 -> Ret("FAILURE")
      [] v = -1 -> Ret("NOT_VERIFIED")
      [] OTHER -> Raise("ValueError")

\* ------------------------------------------------------------ web3node.py
\* What wait_for_transaction_receipt does: a receipt with status 1 or 0, a
\* timeout (TimeExhausted), or a transport error.
WaitOutcomes ==
    {[exc |-> "none", status |-> 1], [exc |-> "none", status |-> 0],
     [exc |-> "TimeExhausted", status |-> -1],
     [exc |-> "HTTPError", status |-> -1],
     [exc |-> "ConnectionError", status |-> -1]}

\* last_wait[t] before the first receipt wait of a loop.
NoWait == [exc |-> "unset", status |-> -1]

\* A verify_transaction whose except clause names TimeExhausted and
\* ValueError only: a timeout returns NOT_VERIFIED.
verify_transaction_timeout_only(w) ==
    LET tried == IF w.exc = "none" THEN TransactionStatus(w.status)
                 ELSE Raise(w.exc)
        met == ExceptClause(tried.exc, {"TimeExhausted", "ValueError"})
    IN  IF tried.exc = "none" THEN tried
        ELSE IF met = "caught" THEN Ret("NOT_VERIFIED")
        ELSE tried

\* The tuple of verify_transaction's except clause, as written.
VerifyExceptTuple == {"TimeExhausted", "requests.exceptions", "ValueError"}

\* A verify_transaction whose except clause names the class
\* requests.exceptions.RequestException in place of the module: it catches
\* the timeout and the transport errors and returns NOT_VERIFIED.
verify_transaction_catching(w) ==
    LET tried == IF w.exc = "none" THEN TransactionStatus(w.status)
                 ELSE Raise(w.exc)
        met == ExceptClause(tried.exc,
                            {"TimeExhausted", "RequestException", "ValueError"})
    IN  IF tried.exc = "none" THEN tried
        ELSE IF met = "caught" THEN Ret("NOT_VERIFIED")
        ELSE IF met = "TypeError" THEN Raise("TypeError")
        ELSE tried

\* Web3Node.verify_transaction, given what wait_for_transaction_receipt did.
verify_transaction(w) ==
    LET tried == IF w.exc = "none" THEN TransactionStatus(w.status)
                 ELSE Raise(w.exc)
        met == ExceptClause(tried.exc, VerifyExceptTuple)
    IN  IF tried.exc = "none" THEN tried
        ELSE IF met = "caught" THEN Ret("NOT_VERIFIED")
        ELSE IF met = "TypeError" THEN Raise("TypeError")
        ELSE tried

\* send_transaction's handlers around sign_transaction: ValueError and
\* TypeError become TransactionException.
SignRaises(e) ==
    IF ExceptClause(e, {"ValueError", "TypeError"}) = "caught"
    THEN "TransactionException" ELSE e

\* send_transaction's handlers around send_raw_transaction: ValueError and
\* RequestException become TransactionException.
BroadcastRaises(e) ==
    IF ExceptClause(e, {"ValueError"}) = "caught" THEN "TransactionException"
    ELSE IF ExceptClause(e, {"RequestException"}) = "caught"
    THEN "TransactionException"
    ELSE e

\* ------------------------------------------------ transaction dictionaries
\* The fields of models.TransactionData.
Fields == {"nonce", "maxFeePerGas", "maxPriorityFeePerGas", "chainId",
           "value", "gas", "to", "data"}

\* A keyword dictionary over Fields is [keys, val]: the keys it holds and
\* their values (val is 0 at a key it does not hold).  Addresses and call
\* data are numbers too.
EmptyDict == [keys |-> {}, val |-> [f \in Fields |-> 0]]

\* d[k] = v.
Put(d, k, v) == [keys |-> d.keys \cup {k}, val |-> [d.val EXCEPT ![k] = v]]

\* `if k not in d: d[k] = v`.
SetDefault(d, k, v) == IF k \in d.keys THEN d ELSE Put(d, k, v)

\* TransactionData.gas: the default gas limit.
DefaultGas == 400000

\* TransactionData(**d).to_dictionary(), for integer values: value and gas
\* get their defaults; to and data default to None, which
\* dict(exclude_none=True) leaves out.
TransactionData(d) == SetDefault(SetDefault(d, "value", 0), "gas", DefaultGas)

\* Gas fees whose maxFeePerGas leaves the priority fee out.
get_gas_fees_base_only(chain) ==
    [maxPriorityFeePerGas |-> chain.max_priority_fee,
     maxFeePerGas |-> 2 * chain.base_fee]

\* Web3Node.get_gas_fees on a chain whose latest block has base fee
\* chain.base_fee and whose eth_maxPriorityFeePerGas is chain.max_priority_fee.
get_gas_fees(chain) ==
    [maxPriorityFeePerGas |-> chain.max_priority_fee,
     maxFeePerGas |-> (2 * chain.base_fee) + chain.max_priority_fee]

\* A builder that takes both fees from the chain whenever one is missing.
build_transaction_data_refreshing(o, chain) ==
    LET with_nonce == SetDefault(o, "nonce", chain.transaction_count)
        gas_params == get_gas_fees(chain)
        with_fees ==
            IF \/ "maxFeePerGas" \notin with_nonce.keys
               \/ "maxPriorityFeePerGas" \notin with_nonce.keys
            THEN Put(Put(with_nonce, "maxFeePerGas", gas_params.maxFeePerGas),
                     "maxPriorityFeePerGas", gas_params.maxPriorityFeePerGas)
            ELSE with_nonce
    IN  TransactionData(SetDefault(with_fees, "chainId", chain.chain_id))

\* Web3Node.build_transaction_data(**o) on a chain in state `chain`
\* (transaction_count of the account, base_fee, max_priority_fee, chain_id).
build_transaction_data(o, chain) ==
    LET with_nonce == SetDefault(o, "nonce", chain.transaction_count)
        gas_params == get_gas_fees(chain)
        with_fees ==
            IF \/ "maxFeePerGas" \notin with_nonce.keys
               \/ "maxPriorityFeePerGas" \notin with_nonce.keys
            THEN SetDefault(
                     SetDefault(with_nonce, "maxFeePerGas",
                                gas_params.maxFeePerGas),
                     "maxPriorityFeePerGas", gas_params.maxPriorityFeePerGas)
            ELSE with_nonce
    IN  TransactionData(SetDefault(with_fees, "chainId", chain.chain_id))

\* unit while no function is applied on its own.
NoUnit == [fn |-> "none"]


\* --------------------------------------------------------- swap.py: Curve
\* Coin addresses.
Coins == 1 .. MaxCoin

\* A Python dict is a function from its keys; {} is the dict with no key.
EmptyMap == [k \in {} |-> 0]

\* {**a, **b}: a key of both takes b's value.
Merge(a, b) ==
    [k \in DOMAIN a \cup DOMAIN b |-> IF k \in DOMAIN b THEN b[k] ELSE a[k]]

\* A lookup that numbers the slots from 1.
lookup_coin_one_based(pool, index, coin_set) ==
    LET address == pool[index + 1]
    IN  IF address \in coin_set THEN [k \in {address} |-> index + 1]
        ELSE EmptyMap

\* Curve._lookup_coin(index, coin_set) on a pool whose coins(i) is pool[i + 1].
lookup_coin(pool, index, coin_set) ==
    LET address == pool[index + 1]
    IN  IF address \in coin_set THEN [k \in {address} |-> index] ELSE EmptyMap

\* `{k: v for result in results for k, v in result.items()}` over the first n
\* results.
RECURSIVE MergeResults(_, _)
MergeResults(results, n) ==
    IF n = 0 THEN EmptyMap
    ELSE Merge(MergeResults(results, n - 1), results[n])

\* Curve.get_coin_indexes(coin_addresses) on a pool of N_COINS() = Len(pool)
\* slots: one _lookup_coin per index of range(num_coins), merged in order.
get_coin_indexes(pool, coin_addresses) ==
    LET coin_set == {coin_addresses[i] : i \in DOMAIN coin_addresses}
        num_coins == Len(pool)
        results ==
            [i \in 1 .. num_coins |-> lookup_coin(pool, i - 1, coin_set)]
    IN  MergeResults(results, num_coins)


\* --------------------------------------------------------------- core.py
\* A retry-loop guard that does not look at the status.
ShouldRetryAlways(status, done) == done # retries

\* A retry-loop guard that gives up one retry early.
ShouldRetryShort(status, done) == status # "SUCCESS" /\ done < retries - 1

\* The guard of the three retry loops (send_ETH, approve, swap):
\* `result.status != TransactionStatus.SUCCESS and retried != self.retries`.
ShouldRetry(status, done) == status # "SUCCESS" /\ done # retries

\* A block counter that wraps one block late.
NextBlockCountOff(count, n) == (count + 1) % (n + 1)

\* ListenAndSend.execute: the block counter after one more height change.
NextBlockCount(count, n) == (count + 1) % n

\* The tuple of the except clause of ListenAndSend.execute's poll loop.
WatcherExceptTuple == {"HTTPError", "TimeExhausted"}

\* Arbitrage._instantiate: the node a coin or a swapper is built on
\* (_coin1_1 and _swapper_1 on _web3node_1, _coin2_2 and _swapper_2 on
\* _web3node_2).
ContractNode(k) == k

\* Arbitrage._swap: the swapper whose swap() a retry of leg t's swap calls.
RetrySwapper(t) == 1

\* Arbitrage.execute: the sell coin and the swapper handed to leg t.
LegContract(t) == t

\* Arbitrage._instantiate: _swapper_1 is a Uniswap, _swapper_2 a Curve.
SwapperClass(k) == IF k = 1 THEN "Uniswap" ELSE "Curve"

\* ----------------------------------------------------- calls through a node
\* call[t] while task t is inside no call.
NoCall == [phase |-> "idle", op |-> "none", target |-> -1, node |-> -1,
           ret |-> "none", sent |-> 0]

\* ended[t] while task t has ended no call.
NoEnd == [op |-> "none", phase |-> "idle", exc |-> "none", sent |-> 0]

\* The send_raw_transaction calls call c has made once its current phase is
\* over: phase "send" is the one send_raw_transaction call of
\* send_transaction.
Sent(c) == c.sent + (IF c.phase = "send" THEN 1 ELSE 0)

\* A retry that skips build_transaction_data and signs the transaction of
\* the attempt before.
InvokeReusing(op, target, node, ret) ==
    [phase |-> IF ret = "retry" THEN "sign"
               ELSE IF op = "swap" /\ SwapperClass(target) = "Curve"
               THEN "prepare" ELSE "build",
     op |-> op, target |-> target, node |-> node, ret |-> ret, sent |-> 0]

\* Task t enters op on contract `target` (send_ETH: on the node itself), which
\* works through Web3Node `node`; ret is "first" for the call before the retry
\* loop and "retry" for the call inside it.  Curve.swap starts with
\* _prepare_swap, every other call with build_transaction_data.
Invoke(op, target, node, ret) ==
    [phase |-> IF op = "swap" /\ SwapperClass(target) = "Curve"
               THEN "prepare" ELSE "build",
     op |-> op, target |-> target, node |-> node, ret |-> ret, sent |-> 0]

\* Where the caller continues when op returns: at its retry loop's guard.
AfterCall(op) ==
    CASE op = "send_ETH" -> "send_loop"
      [] op = "approve" -> "approve_loop"
      [] op = "swap" -> "swap_loop"

\* Where task t continues when exception e leaves the call it is inside.
\* _swap has no handler.  The poll loop of ListenAndSend.execute catches
\* HTTPError and TimeExhausted (and sleeps), the try around the loop catches
\* KeyboardInterrupt (execute prints and returns); anything else ends the
\* program.
Handler(t, e) ==
    IF t \in Legs THEN "raised"
    ELSE IF ExceptClause(e, WatcherExceptTuple) = "caught" THEN "sleep"
    ELSE IF e = "KeyboardInterrupt" THEN "exited"
    ELSE "crashed"

\* A loop that keeps counting where the loop before it stopped.
RetriedKept(ret, old) == old

\* `retried = 0` follows the call before each retry loop (core.py lines 101,
\* 217, 240); a call inside the loop leaves the counter alone.
RetriedAfter(ret, old) == IF ret = "first" THEN 0 ELSE old

\* Task t's call ends with outcome out (Ret or Raise).
CallEnds(t, out) ==
    /\ call' = [call EXCEPT ![t] = NoCall]
    /\ ended' = [ended EXCEPT ![t] = [op |-> call[t].op,
                                      phase |-> call[t].phase,
                                      exc |-> out.exc,
                                      sent |-> Sent(call[t])]]
    /\ IF out.exc = "none"
       THEN /\ result' = [result EXCEPT ![t] = out.value]
            /\ retried' = [retried EXCEPT
                             ![t] = RetriedAfter(call[t].ret, @)]
            /\ pc' = [pc EXCEPT ![t] = AfterCall(call[t].op)]
            /\ UNCHANGED <<error, approve_final>>
       ELSE /\ pc' = [pc EXCEPT ![t] = Handler(t, out.exc)]
            /\ error' = [error EXCEPT
                           ![t] = IF Handler(t, out.exc) = "sleep" THEN @
                                  ELSE out.exc]
            /\ approve_final' =
                 IF t \in Legs /\ call[t].op = "approve"
                 THEN [approve_final EXCEPT ![t] = "raised"]
                 ELSE approve_final
            /\ UNCHANGED <<result, retried>>

\* Task t's call moves on to its next phase.
CallGoes(t, phase) ==
    /\ call' = [call EXCEPT ![t].phase = phase, ![t].sent = Sent(call[t])]
    /\ UNCHANGED <<pc, result, retried, error, approve_final, ended>>

cfgVars == <<command, retries, num_blocks, key_valid>>
connVars == <<conn, nodes>>
watchVars == <<height, current_number, block_count, changes, triggers,
               trigger_mark>>

\* Curve.swap: _prepare_swap reads the pool (N_COINS, coins(i), get_dy)
\* through the node; a failed read or a pool without both coins raises
\* SwapException, a transport error propagates.
CallPrepare(t) ==
    /\ pc[t] = "call" /\ call[t].phase = "prepare"
    /\ \E e \in {"none", "SwapException"} \cup RpcErrors :
         IF e = "none" THEN CallGoes(t, "build") ELSE CallEnds(t, Raise(e))
    /\ endpoint_users' =
         [endpoint_users EXCEPT ![call[t].node] = @ \cup {t}]
    /\ UNCHANGED <<cfgVars, unit, pending, effects, tx, txcount, last_wait, connVars, watchVars, calls>>

\* The override set op hands to build_transaction_data: send_ETH gives `to`
\* and `value`, ERC20Coin.approve and the swaps give nothing.
CallOverrides(op) ==
    IF op = "send_ETH" THEN Put(Put(EmptyDict, "to", 1), "value", 1)
    ELSE EmptyDict

\* tx[t] before task t has built a transaction.
NoTx == [op |-> "none", attempt |-> 0, node |-> -1, nonce |-> -1]

\* Web3Node.build_transaction_data: nonce, gas fees and chain id are read
\* from the chain of the call's node; a transport error of one of the reads
\* propagates.
CallBuild(t) ==
    /\ pc[t] = "call" /\ call[t].phase = "build"
    /\ \E e \in {"none"} \cup RpcErrors :
         IF e = "none"
         THEN /\ CallGoes(t, "sign")
              /\ \E base_fee, max_priority_fee, chain_id \in 1 .. MaxValue :
                   LET chain == [transaction_count |-> txcount[call[t].node],
                                 base_fee |-> base_fee,
                                 max_priority_fee |-> max_priority_fee,
                                 chain_id |-> chain_id]
                       built == build_transaction_data(
                                    CallOverrides(call[t].op), chain)
                   IN  tx' = [tx EXCEPT
                                ![t] = [op |-> call[t].op,
                                        attempt |-> calls[t][call[t].op],
                                        node |-> call[t].node,
                                        nonce |-> built.val["nonce"]]]
         ELSE CallEnds(t, Raise(e)) /\ tx' = tx
    /\ endpoint_users' =
         [endpoint_users EXCEPT ![call[t].node] = @ \cup {t}]
    /\ UNCHANGED <<cfgVars, unit, pending, effects, txcount, last_wait, connVars, watchVars, calls>>

\* Web3Node.send_transaction: sign_transaction.
CallSign(t) ==
    /\ pc[t] = "call" /\ call[t].phase = "sign"
    /\ \E e \in {"none", "ValueError"} :
         IF e = "none" THEN CallGoes(t, "send")
         ELSE CallEnds(t, Raise(SignRaises(e)))
    /\ UNCHANGED <<cfgVars, unit, pending, effects, tx, txcount, last_wait, connVars, watchVars, calls, endpoint_users>>

\* A send_transaction that calls send_raw_transaction once more when the
\* first call raised.
CallBroadcastAgain(t) ==
    /\ pc[t] = "call" /\ call[t].phase = "send"
    /\ \E e \in {"none", "ValueError"} \cup RpcErrors :
         IF e = "none" THEN CallGoes(t, "wait")
         ELSE IF call[t].sent = 0
         THEN /\ call' = [call EXCEPT ![t].sent = 1]
              /\ UNCHANGED <<pc, result, retried, error, approve_final, ended>>
         ELSE CallEnds(t, Raise(BroadcastRaises(e)))
    /\ UNCHANGED <<cfgVars, unit, pending, effects, tx, txcount, last_wait, connVars, watchVars, calls, endpoint_users>>

\* Web3Node.send_transaction: send_raw_transaction.  The node has the
\* transaction when the call returns its hash, has not when it rejects it
\* (ValueError), and may or may not have it when the transport fails.
CallBroadcast(t) ==
    /\ pc[t] = "call" /\ call[t].phase = "send"
    /\ \E e \in {"none", "ValueError"} \cup RpcErrors :
         /\ IF e = "none" THEN CallGoes(t, "wait")
            ELSE CallEnds(t, Raise(BroadcastRaises(e)))
         /\ \E reached \in IF t = 0 /\ e \in RpcErrors THEN BOOLEAN
                             ELSE {FALSE} :
              pending' = IF reached
                         THEN pending \cup {[nonce |-> tx[t].nonce,
                                             trigger |-> triggers]}
                         ELSE pending
    /\ UNCHANGED <<cfgVars, unit, effects, tx, txcount, last_wait, connVars,
                   watchVars, calls, endpoint_users>>

\* Web3Node.send_transaction: verify_transaction, and the TransactionResult.
\* A receipt means the transaction is in a block: only the transaction with
\* the account's next nonce can be, and the account's transaction count on
\* that chain grows by one.  Without a receipt the transaction stays with the
\* node.
CallWait(t) ==
    /\ pc[t] = "call" /\ call[t].phase = "wait"
    /\ \E w \in WaitOutcomes :
         /\ w.exc = "none" => tx[t].nonce = txcount[call[t].node]
         /\ CallEnds(t, verify_transaction(w))
         /\ last_wait' = [last_wait EXCEPT ![t] = w]
         /\ txcount' = IF w.exc = "none"
                       THEN [txcount EXCEPT ![call[t].node] = @ + 1]
                       ELSE txcount
         /\ effects' = IF t = 0 /\ w.exc = "none" /\ w.status = 1
                       THEN effects + 1 ELSE effects
         /\ pending' = IF t # 0 THEN pending
                       ELSE IF w.exc = "none"
                       THEN {p \in pending : p.nonce > tx[t].nonce}
                       ELSE pending \cup {[nonce |-> tx[t].nonce,
                                           trigger |-> triggers]}
    /\ UNCHANGED <<cfgVars, unit, tx, connVars, watchVars, calls,
                   endpoint_users>>

\* The chain includes a transfer that ListenAndSend has stopped waiting for.
MineLate ==
    /\ command = "listenAndSend"
    /\ \E p \in pending : \E status \in {0, 1} :
         /\ p.nonce = txcount[0]
         /\ txcount' = [txcount EXCEPT ![0] = @ + 1]
         /\ effects' = IF status = 1 /\ p.trigger = triggers
                       THEN effects + 1 ELSE effects
         /\ pending' = {q \in pending : q.nonce > p.nonce}
    /\ UNCHANGED <<cfgVars, unit, tx, last_wait, ended, pc, retried,
                   result, error, call, connVars, watchVars, calls,
                   approve_final, endpoint_users>>

\* ------------------------------------------- Web3Node.__init__ (task 0)
\* time.sleep(1) between two connection attempts.
ConnectBackoff == 1

\* conn while no Web3Node is being constructed.
ConnIdle == [node |-> -1, pc |-> "idle", retried |-> 0, attempts |-> 0,
             slept |-> 0, seen |-> FALSE]

\* _initialize_web3 up to its loop: the first Web3(HTTPProvider(...)) and
\* retried = 0.  attempts counts the Web3 instances made, slept the time
\* slept, seen whether is_connected() has answered True.
NewNode(n) == [node |-> n, pc |-> "loop", retried |-> 0, attempts |-> 1,
               slept |-> 0, seen |-> FALSE]

\* A connection-loop guard that gives up one retry early.
ConnShouldRetryShort(connected, done) == ~connected /\ done < retries - 1

\* The guard of _initialize_web3's loop.
ConnShouldRetry(connected, done) == ~connected /\ done # retries

\* `while not self._web3.is_connected() and retried != self.retries`
ConnCheck ==
    /\ pc[0] = "connect" /\ conn.pc = "loop"
    /\ \E c \in BOOLEAN :
         conn' = [conn EXCEPT
                    !.seen = @ \/ c,
                    !.pc = IF ConnShouldRetry(c, conn.retried) THEN "sleep"
                           ELSE "final"]
    /\ UNCHANGED <<cfgVars, unit, pending, effects, tx, txcount, ended, last_wait, pc, retried, result, error, call, nodes,
                   watchVars, calls, approve_final, endpoint_users>>

\* The loop's body: sleep, count the retry, make a new Web3 instance.
ConnRetry ==
    /\ pc[0] = "connect" /\ conn.pc = "sleep"
    /\ conn' = [conn EXCEPT !.slept = @ + ConnectBackoff, !.retried = @ + 1,
                            !.attempts = @ + 1, !.pc = "loop"]
    /\ UNCHANGED <<cfgVars, unit, pending, effects, tx, txcount, ended, last_wait, pc, retried, result, error, call, nodes,
                   watchVars, calls, approve_final, endpoint_users>>

\* After the loop: `if not self._web3.is_connected(): raise`; then
\* _initialize_account_address, and the constructor returns the node.  The
\* programs construct node 0 (ListenAndSend) or nodes 1 and 2 (Arbitrage) and
\* catch nothing; __main__ then calls execute.
ConnFinal ==
    /\ pc[0] = "connect" /\ conn.pc = "final"
    /\ \E c \in BOOLEAN :
         IF ~c
         THEN /\ conn' = [conn EXCEPT !.pc = "raised"]
              /\ pc' = [pc EXCEPT ![0] = "crashed"]
              /\ error' = [error EXCEPT ![0] = "Web3ConnectionException"]
              /\ nodes' = nodes
         ELSE IF ~key_valid
         THEN /\ conn' = [conn EXCEPT !.seen = TRUE, !.pc = "keyerror"]
              /\ pc' = [pc EXCEPT ![0] = "crashed"]
              /\ error' = [error EXCEPT ![0] = "InvalidPrivateKeyException"]
              /\ nodes' = nodes
         ELSE /\ nodes' = nodes \cup {[id |-> conn.node, connected |-> c]}
              /\ error' = error
              /\ IF command = "arbitrage" /\ conn.node = 1
                 THEN conn' = NewNode(2) /\ pc' = pc
                 ELSE /\ conn' = ConnIdle
                      /\ pc' = [pc EXCEPT ![0] = IF command = "listenAndSend"
                                                 THEN "ls_start"
                                                 ELSE "submit_1"]
    /\ UNCHANGED <<cfgVars, unit, pending, effects, tx, txcount, ended, last_wait, retried, result, call, watchVars, calls,
                   approve_final, endpoint_users>>

\* ------------------------------------------ ListenAndSend.execute (task 0)
WatcherLoop == {"poll", "call", "send_loop", "send_end", "sleep"}

\* The chain produces a block.
NewBlock ==
    /\ command = "listenAndSend"
    /\ pc[0] \in WatcherLoop \cup {"ls_start"}
    /\ height < MaxHeight
    /\ height' = height + 1
    /\ UNCHANGED <<cfgVars, unit, pending, effects, tx, txcount, ended, last_wait, pc, retried, result, error, call, connVars,
                   current_number, block_count, changes, triggers,
                   trigger_mark, calls, approve_final, endpoint_users>>

\* current_number = get_block("latest").number; block_count = 0.  This read
\* is outside the try blocks.
LsStart ==
    /\ pc[0] = "ls_start"
    /\ \E e \in {"none"} \cup RpcErrors :
         IF e = "none"
         THEN /\ current_number' = height
              /\ trigger_mark' = height
              /\ block_count' = 0
              /\ pc' = [pc EXCEPT ![0] = "poll"]
              /\ error' = error
         ELSE /\ pc' = [pc EXCEPT ![0] = "crashed"]
              /\ error' = [error EXCEPT ![0] = e]
              /\ UNCHANGED <<current_number, block_count, trigger_mark>>
    /\ UNCHANGED <<cfgVars, unit, pending, effects, tx, txcount, ended, last_wait, retried, result, call, connVars, height, changes,
                   triggers, calls, approve_final, endpoint_users>>

\* One iteration of the poll loop up to the first send_ETH: read the latest
\* number; on a change store it and count the block modulo num_blocks; when
\* the counter is 0 enter send_ETH.
Poll ==
    /\ pc[0] = "poll"
    /\ \E e \in {"none"} \cup RpcErrors :
         LET changed == e = "none" /\ height # current_number
             raised == IF e # "none" THEN e
                       ELSE IF changed /\ num_blocks = 0
                       THEN "ZeroDivisionError"
                       ELSE "none"
             count == IF changed /\ num_blocks # 0
                      THEN NextBlockCount(block_count, num_blocks)
                      ELSE block_count
             sends == changed /\ raised = "none" /\ count = 0
         IN  /\ current_number' = IF changed THEN height ELSE current_number
             /\ changes' = IF changed THEN changes + 1 ELSE changes
             /\ block_count' = count
             /\ triggers' = IF sends THEN triggers + 1 ELSE triggers
             /\ trigger_mark' = IF sends THEN height ELSE trigger_mark
             /\ effects' = IF sends THEN 0 ELSE effects
             /\ call' = IF sends
                        THEN [call EXCEPT
                                ![0] = Invoke("send_ETH", 0, 0, "first")]
                        ELSE call
             /\ calls' = IF sends
                         THEN [calls EXCEPT ![0]["send_ETH"] = 1]
                         ELSE calls
             /\ last_wait' = IF sends THEN [last_wait EXCEPT ![0] = NoWait]
                             ELSE last_wait
             /\ pc' = [pc EXCEPT ![0] = IF raised # "none"
                                        THEN Handler(0, raised)
                                        ELSE IF sends THEN "call" ELSE "poll"]
             /\ error' = [error EXCEPT
                            ![0] = IF raised # "none"
                                      /\ Handler(0, raised) = "crashed"
                                   THEN raised ELSE @]
    /\ UNCHANGED <<cfgVars, unit, pending, tx, txcount, ended, retried, result, connVars, height, approve_final,
                   endpoint_users>>

\* `while result.status != SUCCESS and retried != self.retries`: count the
\* retry and call send_ETH again, or leave the loop.
WatcherSendLoop ==
    /\ pc[0] = "send_loop"
    /\ IF ShouldRetry(result[0], retried[0])
       THEN /\ retried' = [retried EXCEPT ![0] = @ + 1]
            /\ call' = [call EXCEPT ![0] = Invoke("send_ETH", 0, 0, "retry")]
            /\ calls' = [calls EXCEPT ![0]["send_ETH"] = @ + 1]
            /\ pc' = [pc EXCEPT ![0] = "call"]
       ELSE /\ pc' = [pc EXCEPT ![0] = "send_end"]
            /\ UNCHANGED <<retried, call, calls>>
    /\ UNCHANGED <<cfgVars, unit, pending, effects, tx, txcount, ended, last_wait, result, error, connVars, watchVars, approve_final,
                   endpoint_users>>

\* The outcome is printed and the poll loop goes on.
WatcherSendEnd ==
    /\ pc[0] = "send_end"
    /\ pc' = [pc EXCEPT ![0] = "poll"]
    /\ UNCHANGED <<cfgVars, unit, pending, effects, tx, txcount, ended, last_wait, retried, result, error, call, connVars, watchVars,
                   calls, approve_final, endpoint_users>>

\* The handler of HTTPError and TimeExhausted: time.sleep(3), then the loop.
WatcherSleep ==
    /\ command = "listenAndSend" /\ pc[0] = "sleep"
    /\ pc' = [pc EXCEPT ![0] = "poll"]
    /\ UNCHANGED <<cfgVars, unit, pending, effects, tx, txcount, ended, last_wait, retried, result, error, call, connVars, watchVars,
                   calls, approve_final, endpoint_users>>

\* KeyboardInterrupt in the main thread while it is inside the outer try.  It
\* is raised where the thread stands and passes the except clauses on its way
\* out: inside wait_for_transaction_receipt that is first the clause of
\* verify_transaction.  What leaves the inner try goes to Handler.
Interrupt ==
    /\ command = "listenAndSend" /\ pc[0] \in WatcherLoop
    /\ LET waiting == pc[0] = "call" /\ call[0].phase = "wait"
           e == IF waiting
                THEN verify_transaction([exc |-> "KeyboardInterrupt",
                                         status |-> -1]).exc
                ELSE "KeyboardInterrupt"
       IN  /\ pc' = [pc EXCEPT ![0] = Handler(0, e)]
           /\ error' = [error EXCEPT ![0] = IF Handler(0, e) = "crashed"
                                            THEN e ELSE @]
           /\ ended' = IF pc[0] = "call"
                       THEN [ended EXCEPT ![0] = [op |-> call[0].op,
                                                  phase |-> call[0].phase,
                                                  exc |-> e,
                                                  sent |-> Sent(call[0])]]
                       ELSE ended
           /\ pending' = IF waiting
                         THEN pending \cup {[nonce |-> tx[0].nonce,
                                             trigger |-> triggers]}
                         ELSE pending
    /\ call' = [call EXCEPT ![0] = NoCall]
    /\ UNCHANGED <<cfgVars, unit, effects, tx, txcount, last_wait,
                   retried, result, connVars, watchVars, calls, approve_final,
                   endpoint_users>>

\* ------------------------------------------- Arbitrage._swap (tasks 1, 2)
LegDone == {"returned", "raised"}

\* `result = sell_coin.approve(swapper.get_address(), self.amount)`
LegStart(t) ==
    /\ pc[t] = "start"
    /\ call' = [call EXCEPT
                  ![t] = Invoke("approve", LegContract(t),
                                ContractNode(LegContract(t)), "first")]
    /\ calls' = [calls EXCEPT ![t]["approve"] = 1]
    /\ pc' = [pc EXCEPT ![t] = "call"]
    /\ UNCHANGED <<cfgVars, unit, pending, effects, tx, txcount, ended, last_wait, retried, result, error, connVars, watchVars,
                   approve_final, endpoint_users>>

\* The approval's retry loop: approve again, or leave the loop.
LegApproveLoop(t) ==
    /\ pc[t] = "approve_loop"
    /\ IF ShouldRetry(result[t], retried[t])
       THEN /\ retried' = [retried EXCEPT ![t] = @ + 1]
            /\ call' = [call EXCEPT
                          ![t] = Invoke("approve", LegContract(t),
                                        ContractNode(LegContract(t)), "retry")]
            /\ calls' = [calls EXCEPT ![t]["approve"] = @ + 1]
            /\ pc' = [pc EXCEPT ![t] = "call"]
       ELSE /\ pc' = [pc EXCEPT ![t] = "approve_end"]
            /\ UNCHANGED <<retried, call, calls>>
    /\ UNCHANGED <<cfgVars, unit, pending, effects, tx, txcount, ended, last_wait, result, error, connVars, watchVars, approve_final,
                   endpoint_users>>

\* A _swap that swaps whatever the approval's outcome.
GoesOnToSwapAlways(status) == TRUE

\* Whether _swap goes on to the swap after the approval loop: on SUCCESS; on
\* FAILURE and on anything else it returns.
GoesOnToSwap(status) == status = "SUCCESS"

\* After the approval loop: return unless the approval succeeded, else
\* `result = swapper.swap(...)` on the leg's swapper.
LegApproveEnd(t) ==
    /\ pc[t] = "approve_end"
    /\ approve_final' = [approve_final EXCEPT ![t] = result[t]]
    /\ IF GoesOnToSwap(result[t])
       THEN /\ call' = [call EXCEPT
                          ![t] = Invoke("swap", LegContract(t),
                                        ContractNode(LegContract(t)), "first")]
            /\ calls' = [calls EXCEPT ![t]["swap"] = 1]
            /\ last_wait' = [last_wait EXCEPT ![t] = NoWait]
            /\ pc' = [pc EXCEPT ![t] = "call"]
       ELSE /\ pc' = [pc EXCEPT ![t] = "returned"]
            /\ UNCHANGED <<call, calls, last_wait>>
    /\ UNCHANGED <<cfgVars, unit, pending, effects, tx, txcount, ended, retried, result, error, connVars, watchVars,
                   endpoint_users>>

\* The swap's retry loop: `result = self._swapper_1.swap(...)`, or leave the
\* loop.
LegSwapLoop(t) ==
    /\ pc[t] = "swap_loop"
    /\ IF ShouldRetry(result[t], retried[t])
       THEN /\ retried' = [retried EXCEPT ![t] = @ + 1]
            /\ call' = [call EXCEPT
                          ![t] = Invoke("swap", RetrySwapper(t),
                                        ContractNode(RetrySwapper(t)), "retry")]
            /\ calls' = [calls EXCEPT ![t]["swap"] = @ + 1]
            /\ pc' = [pc EXCEPT ![t] = "call"]
       ELSE /\ pc' = [pc EXCEPT ![t] = "swap_end"]
            /\ UNCHANGED <<retried, call, calls>>
    /\ UNCHANGED <<cfgVars, unit, pending, effects, tx, txcount, ended, last_wait, result, error, connVars, watchVars, approve_final,
                   endpoint_users>>

\* The swap's outcome is printed and _swap returns.
LegSwapEnd(t) ==
    /\ pc[t] = "swap_end"
    /\ pc' = [pc EXCEPT ![t] = "returned"]
    /\ UNCHANGED <<cfgVars, unit, pending, effects, tx, txcount, ended, last_wait, retried, result, error, call, connVars, watchVars,
                   calls, approve_final, endpoint_users>>

\* Every step of leg t.
LegStep(t) ==
    \/ LegStart(t) \/ LegApproveLoop(t) \/ LegApproveEnd(t)
    \/ LegSwapLoop(t) \/ LegSwapEnd(t)
    \/ CallPrepare(t) \/ CallBuild(t) \/ CallSign(t) \/ CallBroadcast(t)
    \/ CallWait(t)

\* ---------------------------------------------- Arbitrage.execute (task 0)
\* run_in_executor(executor, self._swap, ...) for leg t: a worker thread of
\* the pool starts _swap.
ArbSubmit(t) ==
    /\ pc[0] = IF t = 1 THEN "submit_1" ELSE "submit_2"
    /\ pc' = [pc EXCEPT ![0] = IF t = 1 THEN "submit_2" ELSE "gather",
                        ![t] = "start"]
    /\ UNCHANGED <<cfgVars, unit, pending, effects, tx, txcount, ended, last_wait, retried, result, error, call, connVars, watchVars,
                   calls, approve_final, endpoint_users>>

\* `await asyncio.gather(swap_1_coroutine, swap_2_coroutine)`: it returns when
\* both legs have returned and raises a leg's exception as soon as a leg has
\* raised.
ArbGather ==
    /\ pc[0] = "gather"
    /\ \/ /\ \A t \in Legs : pc[t] = "returned"
          /\ error' = error
       \/ \E t \in Legs : /\ pc[t] = "raised"
                          /\ error' = [error EXCEPT ![0] = error[t]]
    /\ pc' = [pc EXCEPT ![0] = "shutdown"]
    /\ UNCHANGED <<cfgVars, unit, pending, effects, tx, txcount, ended, last_wait, retried, result, call, connVars, watchVars, calls,
                   approve_final, endpoint_users>>

\* Leaving `with ThreadPoolExecutor(...)` without waiting for the workers.
ArbShutdownNoWait ==
    /\ pc[0] = "shutdown"
    /\ pc' = [pc EXCEPT ![0] = IF error[0] = "none" THEN "finished"
                               ELSE "crashed"]
    /\ UNCHANGED <<cfgVars, unit, pending, effects, tx, txcount, ended, last_wait, retried, result, error, call, connVars, watchVars,
                   calls, approve_final, endpoint_users>>

\* Leaving `with ThreadPoolExecutor(...)`: __exit__ is shutdown(wait=True),
\* which returns when every submitted _swap has ended; then execute returns,
\* or the exception gather raised goes on to the caller.
ArbShutdown ==
    /\ pc[0] = "shutdown"
    /\ \A t \in Legs : pc[t] \in LegDone
    /\ pc' = [pc EXCEPT ![0] = IF error[0] = "none" THEN "finished"
                               ELSE "crashed"]
    /\ UNCHANGED <<cfgVars, unit, pending, effects, tx, txcount, ended, last_wait, retried, result, error, call, connVars, watchVars,
                   calls, approve_final, endpoint_users>>

\* ------------------------------------------------------ the specification
\* __main__ has parsed the command line and the program's constructor has
\* reached the loop of the first Web3Node's _initialize_web3.
Init ==
    /\ command \in {"listenAndSend", "arbitrage"}
    /\ retries \in 0 .. MaxRetries
    /\ num_blocks \in IF command = "listenAndSend" THEN 0 .. MaxNumBlocks
                      ELSE {0}
    /\ key_valid \in BOOLEAN
    /\ pc = [t \in Tasks |-> IF t = 0 THEN "connect" ELSE "idle"]
    /\ retried = [t \in Tasks |-> 0]
    /\ result = [t \in Tasks |-> "none"]
    /\ error = [t \in Tasks |-> "none"]
    /\ call = [t \in Tasks |-> NoCall]
    /\ conn = NewNode(IF command = "listenAndSend" THEN 0 ELSE 1)
    /\ nodes = {}
    /\ height = 0
    /\ current_number = 0
    /\ block_count = 0
    /\ calls = [t \in Tasks |-> [op \in Ops |-> 0]]
    /\ approve_final = [t \in Legs |-> "pending"]
    /\ changes = 0
    /\ triggers = 0
    /\ endpoint_users = [n \in Nodes |-> {}]
    /\ last_wait = [t \in Tasks |-> NoWait]
    /\ ended = [t \in Tasks |-> NoEnd]
    /\ trigger_mark = 0
    /\ tx = [t \in Tasks |-> NoTx]
    /\ txcount = [n \in Nodes |-> 0]
    /\ pending = {}
    /\ effects = 0
    /\ unit = NoUnit

Next ==
    \/ ConnCheck \/ ConnRetry \/ ConnFinal
    \/ NewBlock \/ LsStart \/ Poll \/ MineLate
    \/ WatcherSendLoop \/ WatcherSendEnd \/ WatcherSleep \/ Interrupt
    \/ \E t \in Tasks :
         \/ CallPrepare(t) \/ CallBuild(t) \/ CallSign(t)
         \/ CallBroadcast(t) \/ CallWait(t)
    \/ \E t \in Legs :
         \/ LegStart(t) \/ LegApproveLoop(t) \/ LegApproveEnd(t)
         \/ LegSwapLoop(t) \/ LegSwapEnd(t)
    \/ \E t \in Legs : ArbSubmit(t)
    \/ ArbGather \/ ArbShutdown

Spec == Init /\ [][Next]_vars

\* --------------------------------------- functions applied on their own
\* The dictionaries with the keys of `keys`, each holding v.
Dicts(keys, v) ==
    [keys |-> keys, val |-> [f \in Fields |-> IF f \in keys THEN v ELSE 0]]

\* The chain states build_transaction_data is applied to.
ChainStates ==
    [transaction_count : 0 .. MaxValue, base_fee : 1 .. MaxValue,
     max_priority_fee : 1 .. MaxValue, chain_id : 1 .. MaxValue]

\* The program is not running.
Halted ==
    /\ command = "listenAndSend" /\ retries = 0 /\ num_blocks = 1
    /\ key_valid = TRUE
    /\ pc = [t \in Tasks |-> "off"]
    /\ retried = [t \in Tasks |-> 0]
    /\ result = [t \in Tasks |-> "none"]
    /\ error = [t \in Tasks |-> "none"]
    /\ call = [t \in Tasks |-> NoCall]
    /\ conn = ConnIdle
    /\ nodes = {}
    /\ height = 0 /\ current_number = 0 /\ block_count = 0
    /\ calls = [t \in Tasks |-> [op \in Ops |-> 0]]
    /\ approve_final = [t \in Legs |-> "pending"]
    /\ changes = 0 /\ triggers = 0
    /\ endpoint_users = [n \in Nodes |-> {}]
    /\ last_wait = [t \in Tasks |-> NoWait]
    /\ ended = [t \in Tasks |-> NoEnd]
    /\ trigger_mark = 0
    /\ tx = [t \in Tasks |-> NoTx]
    /\ txcount = [n \in Nodes |-> 0]
    /\ pending = {}
    /\ effects = 0

progVars == <<command, retries, num_blocks, key_valid, pc, retried, result,
              error, call, conn, nodes, height, current_number, block_count,
              calls, approve_final, changes, triggers, endpoint_users,
              last_wait, ended, trigger_mark, tx, txcount, pending, effects>>

\* build_transaction_data is about to be called with override set `overrides`
\* on a chain in state `chain`.
BuildInputs ==
    {[fn |-> "build_transaction_data", pc |-> "called", overrides |-> o,
      chain |-> c, out |-> EmptyDict, builds |-> 0] :
        o \in {Dicts(keys, v) : keys \in SUBSET Fields, v \in 1 .. MaxValue},
        c \in ChainStates}

\* build_transaction_data returns.
BuildApply ==
    /\ unit.fn = "build_transaction_data" /\ unit.pc = "called"
    /\ unit' = [unit EXCEPT
                  !.out = build_transaction_data(unit.overrides, unit.chain),
                  !.pc = "returned", !.builds = @ + 1]
    /\ UNCHANGED progVars

\* A new block with a higher base fee arrives and build_transaction_data is
\* called once more with the same override set.
BuildAgain ==
    /\ unit.fn = "build_transaction_data" /\ unit.pc = "returned"
    /\ unit.builds = 1 /\ unit.chain.base_fee < MaxValue
    /\ unit' = [unit EXCEPT !.chain.base_fee = @ + 1, !.pc = "called"]
    /\ UNCHANGED progVars

\* Sequences over S of length 0 .. n.
SeqsUpTo(S, n) == UNION {[1 .. k -> S] : k \in 0 .. n}

\* Curve.swap(sell, buy, amount) is about to be called on a pool.
CurveInputs ==
    {[fn |-> "Curve.swap", pc |-> "called", pool |-> p, sell |-> c[1],
      buy |-> c[2], amount |-> a, resolved |-> FALSE,
      indexes |-> EmptyMap, exc |-> "none",
      estimates |-> 0, exchanges |-> 0, args |-> <<>>] :
        p \in SeqsUpTo(Coins, MaxSlots), c \in Coins \X Coins,
        a \in 1 .. MaxValue}

\* Curve._prepare_swap up to `if len(indexes) != 2`: a read of the pool may
\* be refused by the contract (ContractLogicError, raised on as
\* SwapException).
CurveResolve ==
    /\ unit.fn = "Curve.swap" /\ unit.pc = "called"
    /\ \E e \in {"none", "ContractLogicError"} :
         LET indexes == get_coin_indexes(unit.pool, <<unit.sell, unit.buy>>)
         IN  unit' =
               IF e # "none"
               THEN [unit EXCEPT !.pc = "raised", !.exc = "SwapException"]
               ELSE IF Cardinality(DOMAIN indexes) # 2
               THEN [unit EXCEPT !.pc = "raised", !.exc = "SwapException",
                                 !.resolved = TRUE, !.indexes = indexes]
               ELSE [unit EXCEPT !.pc = "estimate", !.resolved = TRUE,
                                 !.indexes = indexes]
    /\ UNCHANGED progVars

\* Curve._prepare_swap: get_dy(...).call() and the CurveData; to_args().
CurveEstimate ==
    /\ unit.fn = "Curve.swap" /\ unit.pc = "estimate"
    /\ \/ unit' = [unit EXCEPT !.pc = "raised", !.exc = "SwapException",
                               !.estimates = @ + 1]
       \/ \E estimated_dy \in 1 .. MaxValue :
            unit' = [unit EXCEPT
                       !.pc = "exchange", !.estimates = @ + 1,
                       !.args = <<unit.indexes[unit.sell],
                                  unit.indexes[unit.buy], estimated_dy, 0>>]
    /\ UNCHANGED progVars

\* Curve.swap: exchange(*args) is built and sent.
CurveExchange ==
    /\ unit.fn = "Curve.swap" /\ unit.pc = "exchange"
    /\ unit' = [unit EXCEPT !.pc = "returned", !.exchanges = @ + 1]
    /\ UNCHANGED progVars

InitUnit == Halted /\ unit \in BuildInputs \cup CurveInputs

NextUnit == BuildApply \/ BuildAgain \/ CurveResolve \/ CurveEstimate \/ CurveExchange

SpecUnit == InitUnit /\ [][NextUnit]_vars

\* ============================================================== properties
\* Task t stands right after one of its retry loops.
LoopEnded(t) == pc[t] \in {"send_end", "approve_end", "swap_end"}

\* The operation of the loop task t has just left.
LoopOp(t) ==
    CASE pc[t] = "send_end" -> "send_ETH"
      [] pc[t] = "approve_end" -> "approve"
      [] pc[t] = "swap_end" -> "swap"

\* Arbitrage.execute has ended (returned, or raised to its caller).
ExecuteEnded ==
    command = "arbitrage" /\ conn.pc = "idle" /\ pc[0] \in {"finished", "crashed"}

\* The receipt wait w ended without a receipt: a timeout or a transport error.
Ambiguous(w) == w.exc \in {"TimeExhausted", "HTTPError", "ConnectionError"}

\* C1: when a retry loop (send_ETH, approve, swap) ends and its last outcome
\* is not Success, which means that every attempt was non-Success, the
\* operation has been invoked exactly retries + 1 times, the loop has ended
\* normally (the task stands at the code after the loop, no error is raised)
\* and the result it holds is a non-Success status; no loop ever invokes its
\* operation more than retries + 1 times.
C1_BoundedRetry ==
    /\ \A t \in Tasks :
         (LoopEnded(t) /\ result[t] # "SUCCESS") =>
            /\ calls[t][LoopOp(t)] = retries + 1
            /\ retried[t] = retries
            /\ result[t] \in {"FAILURE", "NOT_VERIFIED"}
            /\ error[t] = "none"
    /\ \A t \in Tasks : \A op \in Ops : calls[t][op] <= retries + 1

C1_Witness ==
    /\ retries >= 2
    /\ pc[1] = "approve_end" /\ result[1] = "FAILURE"
    /\ calls[1]["approve"] = retries + 1
    /\ pc[2] = "swap_end" /\ result[2] = "FAILURE"
    /\ calls[2]["swap"] = retries + 1

\* C2: the outcome of an attempt follows what the receipt wait did: a receipt
\* with status 1 gives Success, one with status 0 gives Failure, and a timeout
\* or a transport error gives Unverified as a returned value, no exception
\* leaving the call.
C2_OutcomeMapping ==
    \A t \in Tasks :
        /\ (last_wait[t].exc = "none" /\ last_wait[t].status = 1)
              => result[t] = "SUCCESS"
        /\ (last_wait[t].exc = "none" /\ last_wait[t].status = 0)
              => result[t] = "FAILURE"
        /\ Ambiguous(last_wait[t])
              => (result[t] = "NOT_VERIFIED" /\ error[t] = "none")

\* C3: a leg has invoked swap only if its approval loop ended with Success; a
\* leg whose approval ended as Failure or Unverified, or raised, has invoked
\* no swap and has ended; and a leg that returned after a successful approval
\* has invoked swap.
C3_SwapIffApproved ==
    \A t \in Legs :
        /\ calls[t]["swap"] > 0 => approve_final[t] = "SUCCESS"
        /\ approve_final[t] \in {"FAILURE", "NOT_VERIFIED", "raised"}
              => (calls[t]["swap"] = 0 /\ pc[t] \in LegDone)
        /\ (pc[t] = "returned" /\ approve_final[t] = "SUCCESS")
              => calls[t]["swap"] > 0

C3_Witness ==
    /\ approve_final[1] = "FAILURE" /\ pc[1] = "returned"
    /\ calls[1]["swap"] = 0
    /\ approve_final[2] = "SUCCESS" /\ calls[2]["swap"] > 0

\* C4: when Arbitrage.execute has ended both legs have ended, and a leg that
\* has been started and has not ended can take its next step whatever state
\* the other leg is in.
C4_JoinAll ==
    /\ ExecuteEnded => \A t \in Legs : pc[t] \in LegDone
    /\ \A t \in Legs :
         pc[t] \notin LegDone \cup {"idle"} => ENABLED LegStep(t)

C4_Witness ==
    /\ ExecuteEnded
    /\ pc[1] = "raised" /\ approve_final[1] = "raised"
    /\ pc[2] = "returned" /\ approve_final[2] = "SUCCESS"
    /\ result[2] = "SUCCESS"

\* C5: every swap call of leg t, the first one and each retry, is a call of
\* swapper t.
C5_OwnSwapper ==
    \A t \in Legs : call[t].op = "swap" => call[t].target = t

\* C6: no Web3Node is in use by both legs at once.
C6_ConnectionExclusive ==
    \A n \in Nodes :
        Cardinality({t \in Legs : call[t].phase # "idle" /\ call[t].node = n})
            <= 1

\* C7: a leg reads from and sends to its own endpoint only: endpoint n, whose
\* answers (nonce, receipts) leg n's calls and outcome depend on, is used by
\* no leg but n.
C7_LegIsolation ==
    \A n \in Legs : endpoint_users[n] \subseteq {n}

C9_TriggerRule ==
    (command = "listenAndSend" /\ num_blocks >= 1) =>
        /\ block_count = changes % num_blocks
        /\ triggers = changes \div num_blocks
        /\ pc[0] \in {"call", "send_loop", "send_end"} => block_count = 0

C9_Witness ==
    /\ num_blocks = 3 /\ changes = 3 /\ triggers = 1 /\ block_count = 0
    /\ pc[0] = "call" /\ calls[0]["send_ETH"] = 1

\* C10: while a Web3Node connects, one backoff of ConnectBackoff has been
\* slept before each attempt but the first and at most retries + 1 attempts
\* are made; when the constructor raises the connection error and
\* is_connected() has never answered True, exactly retries + 1 attempts have
\* been made; and a node the constructor returned answered True to its last
\* is_connected().
C10_ConnectionRetry ==
    /\ conn.pc # "idle" =>
         /\ conn.slept = (conn.attempts - 1) * ConnectBackoff
         /\ conn.attempts <= retries + 1
    /\ (conn.pc = "raised" /\ ~conn.seen) =>
         /\ conn.attempts = retries + 1
         /\ conn.slept = retries * ConnectBackoff
         /\ pc[0] = "crashed" /\ error[0] = "Web3ConnectionException"
    /\ \A nd \in nodes : nd.connected
    /\ (conn.pc # "idle" /\ ~conn.seen) =>
         \A nd \in nodes : nd.id # conn.node

C10_Witness ==
    /\ retries >= 2
    /\ conn.pc = "raised" /\ ~conn.seen
    /\ conn.attempts = retries + 1 /\ conn.slept = retries * ConnectBackoff
    /\ error[0] = "Web3ConnectionException"

\* The four fields a transaction cannot be signed without.
Resolved == {"nonce", "maxFeePerGas", "maxPriorityFeePerGas", "chainId"}

\* What live chain state gives for field f of Resolved.
FromChain(c, f) ==
    CASE f = "nonce" -> c.transaction_count
      [] f = "maxFeePerGas" -> 2 * c.base_fee + c.max_priority_fee
      [] f = "maxPriorityFeePerGas" -> c.max_priority_fee
      [] f = "chainId" -> c.chain_id

\* C11: for every override set, each of nonce, maxFeePerGas,
\* maxPriorityFeePerGas and chainId that the caller supplied appears unchanged
\* in the built transaction, each one that is missing is filled from live
\* chain state, and no other supplied field is altered.
C11_BuilderFills ==
    (unit.fn = "build_transaction_data" /\ unit.pc = "returned") =>
        /\ \A f \in Resolved :
             /\ f \in unit.out.keys
             /\ unit.out.val[f] = IF f \in unit.overrides.keys
                                  THEN unit.overrides.val[f]
                                  ELSE FromChain(unit.chain, f)
        /\ \A f \in unit.overrides.keys :
             f \in unit.out.keys /\ unit.out.val[f] = unit.overrides.val[f]

\* A transaction was built from an override set that supplies one fee (with
\* a value the chain would not give) and a recipient, but not the other fee.
C11_Witness ==
    /\ unit.fn = "build_transaction_data" /\ unit.pc = "returned"
    /\ unit.overrides.keys = {"maxFeePerGas", "to"}
    /\ unit.overrides.val["maxFeePerGas"]
         # FromChain(unit.chain, "maxFeePerGas")
    /\ unit.out.val["maxPriorityFeePerGas"] = unit.chain.max_priority_fee

\* C12: every call of send_transaction that returns a TransactionResult has
\* made exactly one send_raw_transaction call, a call that fails at signing
\* has made none, and no call makes a second one.
C12_OneBroadcast ==
    \A t \in Tasks :
        /\ (ended[t].op # "none" /\ ended[t].exc = "none") => ended[t].sent = 1
        /\ (ended[t].phase = "sign" /\ ended[t].exc # "none") =>
               ended[t].sent = 0
        /\ ended[t].sent <= 1
        /\ Sent(call[t]) <= 1
        /\ call[t].phase = "wait" => call[t].sent = 1

\* One leg's latest call returned a TransactionResult and the other leg's
\* latest call failed at signing.
C12_Witness ==
    \E t, u \in Legs :
        /\ ended[t].exc = "none" /\ ended[t].sent = 1 /\ result[t] # "none"
        /\ ended[u].phase = "sign" /\ ended[u].exc = "TransactionException"
        /\ error[u] = "TransactionException"

\* C13: when both requested coins occur in the pool, the resolved mapping has
\* exactly those two addresses as keys, each mapped to the index of a slot
\* holding it; when fewer than two of them resolve, SwapException is raised
\* and neither get_dy nor exchange is called.
C13_CurveIndexes ==
    (unit.fn = "Curve.swap" /\ unit.pc # "called") =>
        LET slots == {unit.pool[i] : i \in DOMAIN unit.pool}
            requested == {unit.sell, unit.buy}
        IN  /\ (unit.resolved /\ requested \subseteq slots) =>
                /\ DOMAIN unit.indexes = requested
                /\ \A a \in requested :
                     /\ unit.indexes[a] \in 0 .. Len(unit.pool) - 1
                     /\ unit.pool[unit.indexes[a] + 1] = a
            /\ Cardinality(DOMAIN unit.indexes) < 2 =>
                /\ unit.pc = "raised" /\ unit.exc = "SwapException"
                /\ unit.estimates = 0 /\ unit.exchanges = 0

\* Both coins were found in a pool of three slots whose first slot holds
\* neither, and the exchange went out with their slot indexes.
C13_Witness ==
    /\ unit.fn = "Curve.swap" /\ unit.pc = "returned"
    /\ Len(unit.pool) = 3 /\ unit.pool[1] \notin {unit.sell, unit.buy}
    /\ unit.indexes[unit.sell] = 2 /\ unit.indexes[unit.buy] = 1
    /\ unit.exchanges = 1

\* Only one of the two coins is in the pool, and the swap raised.
C13_WitnessMissing ==
    /\ unit.fn = "Curve.swap" /\ unit.pc = "raised" /\ unit.resolved
    /\ Cardinality(DOMAIN unit.indexes) = 1 /\ unit.sell # unit.buy

\* C14: an RPC error raised while the block height is polled is caught: the
\* poll loop goes to its sleep with the block counter and the last observed
\* height unchanged, and the program does not end.
C14_PollErrorsNotFatal ==
    [][(command = "listenAndSend" /\ pc[0] = "poll") =>
         /\ pc'[0] = "crashed" => error'[0] \notin RpcErrors
         /\ pc'[0] = "sleep" => /\ block_count' = block_count
                                /\ current_number' = current_number]_vars

\* C15: no outcome of a transfer attempt's receipt wait ends ListenAndSend
\* (its sending phase goes back to polling), and a leg whose approval or swap
\* retries are exhausted does not raise.
C15_ExhaustionNotAbnormal ==
    /\ (command = "listenAndSend" /\ ended[0].phase = "wait") =>
           pc[0] # "crashed"
    /\ \A t \in Legs :
           (ended[t].exc = "none" /\ result[t] # "SUCCESS"
              /\ retried[t] = retries) => pc[t] # "raised"

\* C16: an error of send_raw_transaction ends the attempt only: it ends
\* neither ListenAndSend nor a leg.
C16_SubmissionErrorNotTerminal ==
    \A t \in Tasks :
        (ended[t].phase = "send" /\ ended[t].exc # "none") =>
            pc[t] \notin {"crashed", "raised"}

\* C17: ListenAndSend starts a transfer each time the height has advanced by
\* num_blocks since it started or since it last started a transfer: between
\* two polls the observed height is less than num_blocks past that mark.
C17_EveryNBlocks ==
    (command = "listenAndSend" /\ num_blocks >= 1 /\ pc[0] \in WatcherLoop) =>
        current_number - trigger_mark < num_blocks

\* Task t's call has a built transaction in hand (it signs, broadcasts or
\* waits for the receipt).
InHand(t) == pc[t] = "call" /\ call[t].phase \in {"sign", "send", "wait"}

\* C18: the transaction an attempt signs and broadcasts was built in that
\* attempt, for that operation, through the node of the call; the nonce of a
\* transfer is the account's transaction count after the attempt before
\* returned.
C18_FreshBuild ==
    \A t \in Tasks :
        InHand(t) =>
            /\ tx[t].op = call[t].op
            /\ tx[t].attempt = calls[t][call[t].op]
            /\ tx[t].node = call[t].node
            /\ t = 0 => tx[t].nonce = txcount[0]

\* The second retry of a transfer holds a transaction built in that retry,
\* with the nonce the two mined attempts before it left behind.
C18_Witness ==
    /\ InHand(0) /\ call[0].ret = "retry" /\ call[0].phase = "send"
    /\ tx[0].attempt = 3 /\ tx[0].nonce >= 2

\* C19: a retry loop stops at the first Success: a retry is only ever made
\* after a non-Success attempt, so when a loop ends with Success that Success
\* is its last invocation and its first Success, and the invocations never
\* exceed retries + 1.
C19_StopsAtSuccess ==
    \A t \in Tasks :
        /\ (pc[t] = "call" /\ call[t].ret = "retry") => result[t] # "SUCCESS"
        /\ (LoopEnded(t) /\ result[t] = "SUCCESS") =>
               /\ calls[t][LoopOp(t)] = retried[t] + 1
               /\ calls[t][LoopOp(t)] <= retries + 1
               /\ last_wait[t] = [exc |-> "none", status |-> 1]

\* A swap loop with a budget of two retries ended after its second attempt,
\* the first that returned Success.
C19_Witness ==
    \E t \in Legs :
        /\ retries = 2 /\ pc[t] = "swap_end" /\ result[t] = "SUCCESS"
        /\ calls[t]["swap"] = 2

\* The operation of the retry loop task t stands in, or "none".
InLoopOf(t) ==
    CASE pc[t] \in {"send_loop", "send_end"} -> "send_ETH"
      [] pc[t] \in {"approve_loop", "approve_end"} -> "approve"
      [] pc[t] \in {"swap_loop", "swap_end"} -> "swap"
      [] OTHER -> "none"

\* C20: retry budgets are not pooled: in every loop the retries counted are
\* those of that loop alone (invocations = retried + 1), so a swap loop that
\* follows an approval with retries still ends without Success only after
\* retries + 1 swap attempts, and so does the loop of every transfer trigger.
C20_BudgetsNotPooled ==
    \A t \in Tasks :
        InLoopOf(t) # "none" =>
            /\ calls[t][InLoopOf(t)] = retried[t] + 1
            /\ (pc[t] \in {"swap_end", "send_end"} /\ result[t] # "SUCCESS")
                   => calls[t][InLoopOf(t)] = retries + 1

\* A leg whose approval took all its retries made retries + 1 swap attempts.
C20_Witness ==
    \E t \in Legs :
        /\ retries = 2 /\ pc[t] = "swap_end" /\ result[t] = "FAILURE"
        /\ calls[t]["approve"] = retries + 1
        /\ calls[t]["swap"] = retries + 1

\* The second transfer trigger made retries + 1 attempts after the first
\* had used up its retries (every attempt was mined and failed).
C20_WitnessTrigger ==
    /\ retries = 2 /\ triggers = 2 /\ pc[0] = "send_end"
    /\ result[0] = "FAILURE" /\ calls[0]["send_ETH"] = retries + 1
    /\ txcount[0] = 2 * (retries + 1)

\* C21: a user interruption of ListenAndSend while it is in its poll loop
\* (polling, sending or sleeping) makes execute return normally: no error
\* leaves it.
C21_InterruptGraceful ==
    [][Interrupt => (pc'[0] = "exited" /\ error'[0] = "none")]_vars

\* C22: whenever build_transaction_data derives both fee fields from chain
\* state, the built transaction has maxFeePerGas = 2 * baseFeePerGas of the
\* latest block + maxPriorityFeePerGas and maxPriorityFeePerGas = the chain's
\* priority-fee estimate, both as the chain stands at that build.
C22_DerivedFees ==
    (/\ unit.fn = "build_transaction_data" /\ unit.pc = "returned"
     /\ "maxFeePerGas" \notin unit.overrides.keys
     /\ "maxPriorityFeePerGas" \notin unit.overrides.keys) =>
        /\ unit.out.val["maxPriorityFeePerGas"] = unit.chain.max_priority_fee
        /\ unit.out.val["maxFeePerGas"] =
             2 * unit.chain.base_fee + unit.out.val["maxPriorityFeePerGas"]

\* A second transaction was built without fee overrides after the base fee
\* had risen, and carries the fees of the new block.
C22_Witness ==
    /\ unit.fn = "build_transaction_data" /\ unit.pc = "returned"
    /\ unit.builds = 2 /\ unit.overrides.keys = {"to", "value"}
    /\ unit.chain.base_fee = 2 /\ unit.chain.max_priority_fee = 1
    /\ unit.out.val["maxFeePerGas"] = 5

\* C26: every transaction build_transaction_data produces has
\* maxFeePerGas >= maxPriorityFeePerGas, whatever the override set.
C26_FeeOrder ==
    (unit.fn = "build_transaction_data" /\ unit.pc = "returned") =>
        unit.out.val["maxFeePerGas"] >= unit.out.val["maxPriorityFeePerGas"]

\* C25: for every num_blocks the validation accepts, counting a height change
\* raises no arithmetic error, and in the poll loop the block counter is
\* within 0 .. num_blocks - 1.
C25_CounterWellDefined ==
    command = "listenAndSend" =>
        /\ error[0] # "ZeroDivisionError"
        /\ pc[0] \in WatcherLoop => block_count \in 0 .. num_blocks - 1

Broadcast(t) ==
    \/ pc[t] = "call" /\ call[t].phase = "wait"
    \/ pc[t] # "call" /\ ended[t].phase = "wait"

\* C24: no two tasks broadcast, through the same endpoint, transactions built
\* from the same transaction count.
C24_NoNonceCollision ==
    \A t, u \in Tasks :
        (t # u /\ Broadcast(t) /\ Broadcast(u) /\ tx[t].node = tx[u].node) =>
            tx[t].nonce # tx[u].nonce

=============================================================================
